---- MODULE Spec2Model ----
(***************************************************************************)
(* A model of the text2voice backend: the EnhancedTTSService              *)
(* (enhanced_tts_service.py) and the Flask handlers that use it (app.py). *)
(*                                                                         *)
(* Four specifications share the module:                                   *)
(*   SpecFn    the pure functions applied to bounded inputs                *)
(*   SpecCall  one caller making synthesize_speech calls in sequence       *)
(*   Spec      the threaded HTTP server with its global tts_service        *)
(*   SpecInit  the server under the requests that never reach espeak-ng    *)
(***************************************************************************)
EXTENDS Integers, Sequences, FiniteSets, TLC

VARIABLES fn, phase, tts_service, constructed, fs, req

vars == <<fn, phase, tts_service, constructed, fs, req>>

(***************************************************************************)
(* Bounds of the model.                                                    *)
(***************************************************************************)
\* number of request threads of the server
NumReqs == 2
\* number of distinct names the temporary directory can hand out
MaxNames == 2
\* longest text given to the fallback tone generator
MaxTextLen == 126
\* sample indices 0..MaxProbe (and the last one) are computed for each tone
MaxProbe == 14

Min(a, b) == IF a < b THEN a ELSE b
Max(a, b) == IF a > b THEN a ELSE b
Abs(a) == IF a < 0 THEN 0 - a ELSE a

(***************************************************************************)
(* Text.  A text is a sequence of characters, each a one-token string.     *)
(* "DEV_NA" and "DEV_MA" stand for two letters of the Devanagari block     *)
(* (U+0900..U+097F).                                                        *)
(***************************************************************************)
Whitespace == {" ", "\t", "\n"}
Devanagari == {"DEV_NA", "DEV_MA"}
Latin == {"a", "b", "c", "h", "i", "o", "t", "r", "s", "e", "f",
          "D", "M", "P"}

\* str.isalpha() on one character
IsAlpha(c) == c \in Latin \cup Devanagari

\* str.strip(): drop leading and trailing whitespace
RECURSIVE LStrip(_)
LStrip(s) ==
    IF s = <<>> THEN <<>>
    ELSE IF Head(s) \in Whitespace THEN LStrip(Tail(s)) ELSE s

RECURSIVE RStrip(_)
RStrip(s) ==
    IF s = <<>> THEN <<>>
    ELSE IF s[Len(s)] \in Whitespace THEN RStrip(SubSeq(s, 1, Len(s) - 1)) ELSE s

Strip(s) == RStrip(LStrip(s))

\* ' '.join(text.split()): words separated by single spaces
RECURSIVE JoinSplit(_, _)
JoinSplit(s, pending) ==
    IF s = <<>> THEN <<>>
    ELSE IF Head(s) \in Whitespace THEN JoinSplit(Tail(s), TRUE)
    ELSE (IF pending THEN <<" ">> ELSE <<>>) \o <<Head(s)>> \o JoinSplit(Tail(s), FALSE)

CollapseWhitespace(s) == JoinSplit(LStrip(s), FALSE)

IsPrefix(p, s) == Len(p) <= Len(s) /\ SubSeq(s, 1, Len(p)) = p

\* str.replace(old, new): leftmost non-overlapping occurrences
RECURSIVE Replace(_, _, _)
Replace(s, old, new) ==
    IF s = <<>> THEN <<>>
    ELSE IF IsPrefix(old, s)
         THEN new \o Replace(SubSeq(s, Len(old) + 1, Len(s)), old, new)
         ELSE <<Head(s)>> \o Replace(Tail(s), old, new)

replacements == <<
    << <<"D", "r", ".">>, <<"D", "o", "c", "t", "o", "r">> >>,
    << <<"M", "r", ".">>, <<"M", "i", "s", "t", "e", "r">> >>,
    << <<"M", "r", "s", ".">>, <<"M", "i", "s", "s", "u", "s">> >>,
    << <<"M", "s", ".">>, <<"M", "i", "s", "s">> >>,
    << <<"P", "r", "o", "f", ".">>,
       <<"P", "r", "o", "f", "e", "s", "s", "o", "r">> >> >>

RECURSIVE ApplyReplacements(_, _)
ApplyReplacements(s, k) ==
    IF k > Len(replacements) THEN s
    ELSE ApplyReplacements(Replace(s, replacements[k][1], replacements[k][2]), k + 1)

\* EnhancedTTSService._clean_text
_clean_text(text) == ApplyReplacements(CollapseWhitespace(text), 1)

RECURSIVE CountIn(_, _)
CountIn(s, S) ==
    IF s = <<>> THEN 0
    ELSE (IF Head(s) \in S THEN 1 ELSE 0) + CountIn(Tail(s), S)

\* app.detect_language: hindi_chars / total_chars > 0.3
detect_language(text) ==
    LET total_chars == CountIn(text, Latin \cup Devanagari)
        hindi_chars == CountIn(text, Devanagari)
    IN IF total_chars > 0 /\ 10 * hindi_chars > 3 * total_chars
       THEN "hi" ELSE "en"

(***************************************************************************)
(* Voice resolver.                                                         *)
(***************************************************************************)
Cfg(v, s, p) == [voice |-> v, speed |-> s, pitch |-> p]

\* the outcome of a failed dictionary subscript
KeyError == Cfg("KeyError", 0, 0)

voice_configs ==
    [en |-> [alloy |-> Cfg("en+f3", 175, 50),
             echo |-> Cfg("en+f4", 160, 45),
             fable |-> Cfg("en+f5", 180, 55),
             onyx |-> Cfg("en+m1", 150, 40),
             nova |-> Cfg("en+f1", 190, 60),
             shimmer |-> Cfg("en+f2", 170, 52)],
     hi |-> [hindi_voice |-> Cfg("hi+f1", 165, 48),
             alloy |-> Cfg("hi+f1", 165, 48)]]

\* d[k]
Subscript(d, k) == IF k \in DOMAIN d THEN d[k] ELSE KeyError

\* a variant that falls back to the English 'alloy' profile for an unknown
\* voice id, whatever the language
_get_voice_config_en_default(voice, language) ==
    LET lang_voices == IF language \in DOMAIN voice_configs
                       THEN voice_configs[language] ELSE voice_configs["en"]
    IN IF voice \in DOMAIN lang_voices THEN lang_voices[voice]
       ELSE voice_configs["en"]["alloy"]

\* EnhancedTTSService._get_voice_config; both defaults are evaluated before
\* the lookup, as the arguments of dict.get are
_get_voice_config(voice, language) ==
    LET lang_voices == IF language \in DOMAIN voice_configs
                       THEN voice_configs[language] ELSE voice_configs["en"]
        default == Subscript(lang_voices, "alloy")
    IN IF default = KeyError THEN KeyError
       ELSE IF voice \in DOMAIN lang_voices THEN lang_voices[voice] ELSE default

(***************************************************************************)
(* Fallback tone.  Durations are in 1/100 s, times in 1/100000 s, phases   *)
(* in 1/100000 cycle and amplitudes in 1/1000 of full scale.               *)
(***************************************************************************)
sample_rate == 22050
MaxDuration100 == 1000
PerChar100 == 8
FreqEn == 440
FreqOther == 523
AmplitudeTenths == 3
Int16Max == 32767
ExpTerms == 14

\* a variant without the 10 second cap
FallbackDuration100Uncapped(text) == Len(text) * PerChar100

\* duration = min(len(text) * 0.08, 10.0)
FallbackDuration100(text) == Min(Len(text) * PerChar100, MaxDuration100)

\* int(self.sample_rate * duration)
NumSamples(text) == (sample_rate * FallbackDuration100(text)) \div 100

\* frequency = 440 if language == "en" else 523
Frequency(language) == IF language = "en" THEN FreqEn ELSE FreqOther

\* np.linspace(0, duration, n)[i], in 1/100000 s
SampleTime(text, i) ==
    LET n == NumSamples(text)
        a == i * FallbackDuration100(text)
    IN IF n <= 1 THEN 0
       ELSE (a \div (n - 1)) * 1000 + ((a % (n - 1)) * 1000) \div (n - 1)

\* sin(2 pi p / 100000) in 1/1000, by Bhaskara's rational approximation
SinMilli(p) ==
    LET h == p % 50000
        w == (h * (50000 - h)) \div 2500
        m == (4000 * w) \div (1250000 - w)
    IN IF p % 100000 < 50000 THEN m ELSE 0 - m

\* exp(y / 1000) in 1/1000, by its power series
RECURSIVE ExpSeries(_, _, _)
ExpSeries(y, k, term) ==
    IF k > ExpTerms THEN 0
    ELSE term + ExpSeries(y, k + 1, (term * y) \div ((k + 1) * 1000))

\* np.exp(-t / (duration / 3)) at sample i, in 1/1000
EnvelopeMilli(text, i) ==
    LET n == NumSamples(text)
        y == IF n <= 1 THEN 0 ELSE (3000 * i) \div (n - 1)
    IN 1000000 \div ExpSeries(y, 0, 1000)

\* audio[i] = 0.3 * sin(2 pi f t) * envelope, in 1/1000
AudioMilli(text, language, i) ==
    LET s == SinMilli((Frequency(language) * SampleTime(text, i)) % 100000)
        e == EnvelopeMilli(text, i)
        mag == (AmplitudeTenths * Abs(s) * e) \div 10000
    IN IF s < 0 THEN 0 - mag ELSE mag

\* np.clip(audio_array, -1.0, 1.0)
Clip(a) == Max(0 - 1000, Min(1000, a))

\* (audio_array * 32767).astype(np.int16): truncation toward zero
ToInt16(a) ==
    LET mag == (Abs(Clip(a)) * Int16Max) \div 1000
    IN IF a < 0 THEN 0 - mag ELSE mag

NoAudio == [kind |-> "None", nchannels |-> 0, sampwidth |-> 0,
            framerate |-> 0, nframes |-> 0, frequency |-> 0]

\* EnhancedTTSService._numpy_to_wav applied to the tone: the WAV parameters
_numpy_to_wav(nframes, frequency) ==
    [kind |-> "fallback", nchannels |-> 1, sampwidth |-> 2,
     framerate |-> sample_rate, nframes |-> nframes, frequency |-> frequency]

\* EnhancedTTSService._generate_fallback_audio
_generate_fallback_audio(text, language) ==
    _numpy_to_wav(NumSamples(text), Frequency(language))

(***************************************************************************)
(* SpecFn: the pure functions on bounded inputs.                           *)
(***************************************************************************)
FnLanguages == {"en", "hi", "fr", ""}
FnVoices == {"alloy", "echo", "fable", "onyx", "nova", "shimmer",
             "hindi_voice", "bogus", ""}

TextOfLen(n) == [k \in 1..n |-> "a"]

ProbeIndices(text) ==
    {i \in (0..MaxProbe) \cup {NumSamples(text) - 1} :
        0 <= i /\ i < NumSamples(text)}

FnIdle == [op |-> "idle", voice |-> "", language |-> "", config |-> KeyError,
           text |-> <<>>, audio |-> NoAudio, index |-> 0, sample |-> 0,
           pcm |-> 0]

FnResolve(voice, language) ==
    /\ fn.op = "idle"
    /\ fn' = [FnIdle EXCEPT !.op = "resolve", !.voice = voice,
                            !.language = language,
                            !.config = _get_voice_config(voice, language)]
    /\ UNCHANGED <<phase, tts_service, constructed, fs, req>>

FnTone(text, language) ==
    /\ fn.op = "idle"
    /\ fn' = [FnIdle EXCEPT !.op = "tone", !.text = text,
                            !.language = language,
                            !.audio = _generate_fallback_audio(text, language)]
    /\ UNCHANGED <<phase, tts_service, constructed, fs, req>>

FnSample(i) ==
    /\ fn.op = "tone"
    /\ i \in ProbeIndices(fn.text)
    /\ fn' = [fn EXCEPT !.op = "sample", !.index = i,
                        !.sample = AudioMilli(fn.text, fn.language, i),
                        !.pcm = ToInt16(AudioMilli(fn.text, fn.language, i))]
    /\ UNCHANGED <<phase, tts_service, constructed, fs, req>>

(***************************************************************************)
(* Requests, the temporary directory and the global service instance.      *)
(***************************************************************************)
Reqs == 1..NumReqs
Names == 1..MaxNames

\* a file of the temporary directory: `creator` is the request that created
\* it, for as long as that request is in _synthesize_with_espeak, and 0 after
NoFile == [exists |-> FALSE, creator |-> 0, content |-> "None"]

\* the directory once request r has left _synthesize_with_espeak
Left(dir, r) ==
    [name \in DOMAIN dir |->
        IF dir[name].creator = r THEN [dir[name] EXCEPT !.creator = 0]
        ELSE dir[name]]

\* the bytes espeak-ng writes, and the zero bytes of a file just created
EspeakWav == [NoAudio EXCEPT !.kind = "espeak", !.nchannels = 1,
                             !.sampwidth = 2, !.framerate = sample_rate]
EmptyBytes == [NoAudio EXCEPT !.kind = "empty"]

FileBytes(content) == IF content = "espeak" THEN EspeakWav ELSE EmptyBytes

\* request.get_json() results: the keys present and their values
Body(keys, input, input_is_str, voice, voice_is_str, response_format) ==
    [keys |-> keys, input |-> input, input_is_str |-> input_is_str,
     voice |-> voice, voice_is_str |-> voice_is_str,
     response_format |-> response_format]

\* no request body read
NoBody == Body({}, <<>>, TRUE, "", TRUE, "")

Idle ==
    [pc |-> "idle", handler |-> "none", data |-> NoBody, text |-> <<>>, language |-> "",
     voice |-> "", voice_hashable |-> TRUE, response_format |-> "",
     tts |-> 0, voice_config |-> KeyError, temp_path |-> 0,
     outcome |-> "none", returncode |-> 0 - 1, result |-> NoAudio,
     status |-> 0, error |-> "", content_type |-> "",
     created |-> 0, spawned |-> 0, tones |-> 0, foreign |-> FALSE]

TextHi == <<"h", "i">>
TextDr == <<" ", "D", "r", ".", " ", " ", "a">>
TextHindi == <<"DEV_NA", "DEV_MA", " ", "o", "r">>
TextBlank == <<" ", "\t">>

Bodies ==
    { Body({}, <<>>, TRUE, "", TRUE, ""),
      Body({"model"}, <<>>, TRUE, "", TRUE, ""),
      Body({"input"}, <<>>, TRUE, "", TRUE, ""),
      Body({"input", "voice"}, TextBlank, TRUE, "nova", TRUE, ""),
      Body({"input"}, TextHi, TRUE, "", TRUE, ""),
      Body({"input", "voice", "response_format"}, TextDr, TRUE, "nova", TRUE, "mp3"),
      Body({"input", "voice", "response_format"}, TextHindi, TRUE, "bogus", TRUE, "ogg"),
      Body({"input", "voice"}, TextHi, TRUE, "", FALSE, ""),
      Body({"input"}, <<>>, FALSE, "", TRUE, "") }

\* data.get(key, default)
Get(data, key, default) == IF key \in data.keys THEN data[key] ELSE default

\* the content_type table of create_speech and its default
ContentType(response_format) ==
    CASE response_format = "mp3" -> "audio/mpeg"
      [] response_format = "wav" -> "audio/wav"
      [] response_format = "opus" -> "audio/opus"
      [] response_format = "aac" -> "audio/aac"
      [] response_format = "flac" -> "audio/flac"
      [] OTHER -> "audio/wav"

\* create_speech: `if not text.strip()`
InputIsBlank(text) == Strip(text) = <<>>

\* a variant that tests for the empty string only
TextIsEmpty(text) == text = <<>>

\* synthesize_speech: `if not text.strip()`
TextIsBlank(text) == Strip(text) = <<>>

\* what the caller of synthesize_speech gets: create_speech turns the result
\* into its response, any other caller keeps it as it is
Return(q, result) ==
    IF q.handler = "create_speech"
    THEN IF result = NoAudio
         THEN [q EXCEPT !.pc = "done", !.result = result, !.status = 500,
                        !.error = "Failed to generate speech"]
         ELSE [q EXCEPT !.pc = "done", !.result = result, !.status = 200,
                        !.content_type = ContentType(q.response_format)]
    ELSE [q EXCEPT !.pc = "done", !.result = result]

(***************************************************************************)
(* app.py: start-up and the handlers.                                      *)
(***************************************************************************)
\* a start-up that leaves the service to the first request
MainNoInitialize ==
    /\ phase = "boot"
    /\ phase' = "serving"
    /\ UNCHANGED <<fn, tts_service, constructed, fs, req>>

\* __main__: initialize_tts() runs to its end, then app.run(threaded=True)
\* starts serving; no request thread exists before that
Main ==
    /\ phase = "boot"
    /\ phase' = "serving"
    /\ IF tts_service = 0
       THEN /\ constructed' = constructed + 1
            /\ tts_service' = constructed + 1
       ELSE UNCHANGED <<constructed, tts_service>>
    /\ UNCHANGED <<fn, fs, req>>

\* create_speech up to its call of initialize_tts
create_speech(r, data) ==
    /\ phase = "serving"
    /\ req[r].pc = "idle"
    /\ LET q == [Idle EXCEPT !.handler = "create_speech", !.data = data]
           text == Get(data, "input", <<>>)
           text_is_str == ("input" \in data.keys) => data.input_is_str
       IN req' = [req EXCEPT ![r] =
            IF data.keys = {}
            THEN [q EXCEPT !.pc = "done", !.status = 400,
                           !.error = "No JSON data provided"]
            ELSE IF ~text_is_str
            THEN [q EXCEPT !.pc = "done", !.status = 500,
                           !.error = "Internal server error"]
            ELSE IF InputIsBlank(text)
            THEN [q EXCEPT !.pc = "done", !.text = text, !.status = 400,
                           !.error = "Input text is required"]
            ELSE [q EXCEPT !.pc = "init_check", !.text = text,
                           !.language = detect_language(text),
                           !.voice = Get(data, "voice", "alloy"),
                           !.voice_hashable =
                               (("voice" \in data.keys) => data.voice_is_str),
                           !.response_format =
                               Get(data, "response_format", "wav")]]
    /\ UNCHANGED <<fn, phase, tts_service, constructed, fs>>

GetHandlers == {"list_voices", "get_languages", "get_status"}

\* list_voices, get_languages, get_status up to their call of initialize_tts
GetRequest(r, handler) ==
    /\ phase = "serving"
    /\ req[r].pc = "idle"
    /\ req' = [req EXCEPT ![r] = [Idle EXCEPT !.handler = handler,
                                              !.pc = "init_check"]]
    /\ UNCHANGED <<fn, phase, tts_service, constructed, fs>>

\* initialize_tts called by a handler, one statement at a time:
\*   init_check      if tts_service is None:
\*   init_construct      tts_service = EnhancedTTSService()
\*   init_return     return tts_service
\* and, for a GET handler, the rest of the handler
initialize_tts(r) ==
    /\ req[r].pc \in {"init_check", "init_construct", "init_return"}
    /\ LET q == req[r] IN
       CASE q.pc = "init_check" ->
              /\ req' = [req EXCEPT ![r].pc =
                     IF tts_service = 0 THEN "init_construct" ELSE "init_return"]
              /\ UNCHANGED <<tts_service, constructed>>
         [] q.pc = "init_construct" ->
              /\ constructed' = constructed + 1
              /\ tts_service' = constructed + 1
              /\ req' = [req EXCEPT ![r].pc = "init_return"]
         [] q.pc = "init_return" ->
              /\ req' = [req EXCEPT ![r] =
                     IF q.handler = "create_speech"
                     THEN [q EXCEPT !.pc = "synth", !.tts = tts_service]
                     ELSE [q EXCEPT !.pc = "done", !.tts = tts_service,
                                    !.status = 200]]
              /\ UNCHANGED <<tts_service, constructed>>
    /\ UNCHANGED <<fn, phase, fs>>

\* the thread takes its next request
NextRequest(r) ==
    /\ req[r].pc = "done"
    /\ req' = [req EXCEPT ![r] = Idle]
    /\ UNCHANGED <<fn, phase, tts_service, constructed, fs>>

(***************************************************************************)
(* enhanced_tts_service.py: synthesize_speech and _synthesize_with_espeak. *)
(***************************************************************************)
\* synthesize_speech up to the call of _synthesize_with_espeak
synthesize_speech(r) ==
    /\ req[r].pc = "synth"
    /\ LET q == req[r] IN
       req' = [req EXCEPT ![r] =
          IF TextIsBlank(q.text) THEN Return(q, NoAudio)
          ELSE IF ~q.voice_hashable
          THEN [q EXCEPT !.pc = "fallback", !.text = _clean_text(q.text),
                         !.outcome = "TypeError"]
          ELSE [q EXCEPT !.pc = "mktemp", !.text = _clean_text(q.text),
                         !.voice_config = _get_voice_config(q.voice, q.language)]]
    /\ UNCHANGED <<fn, phase, tts_service, constructed, fs>>

\* tempfile.NamedTemporaryFile(suffix='.wav', delete=False): a name no
\* existing file has
MkTemp(r, name) ==
    /\ req[r].pc = "mktemp"
    /\ ~fs[name].exists
    /\ fs' = [fs EXCEPT ![name] =
                 [exists |-> TRUE, creator |-> r, content |-> "empty"]]
    /\ req' = [req EXCEPT ![r].pc = "run", ![r].temp_path = name,
                          ![r].created = @ + 1]
    /\ UNCHANGED <<fn, phase, tts_service, constructed>>

\* NamedTemporaryFile raises (OSError): caught at `except Exception`
MkTempError(r) ==
    /\ req[r].pc = "mktemp"
    /\ req' = [req EXCEPT ![r] = Return([@ EXCEPT !.outcome = "OSError"], NoAudio)]
    /\ UNCHANGED <<fn, phase, tts_service, constructed, fs>>

\* subprocess.run(cmd, ..., timeout=30) runs to an exit code
RunExits(r, outcome) ==
    /\ req[r].pc = "run"
    /\ outcome \in {"ok", "nonzero", "missing"}
    /\ LET p == req[r].temp_path IN
       fs' = [fs EXCEPT ![p] =
                 CASE outcome = "ok" ->
                          [exists |-> TRUE,
                           creator |-> IF @.exists THEN @.creator ELSE r,
                           content |-> "espeak"]
                   [] outcome = "nonzero" -> @
                   [] outcome = "missing" -> NoFile]
    /\ req' = [req EXCEPT ![r].pc = "finish", ![r].outcome = outcome,
                          ![r].returncode = IF outcome = "nonzero" THEN 1 ELSE 0,
                          ![r].spawned = @ + 1]
    /\ UNCHANGED <<fn, phase, tts_service, constructed>>

\* subprocess.run raises TimeoutExpired or FileNotFoundError: caught at
\* `except Exception`, which returns None
RunRaises(r, outcome) ==
    /\ req[r].pc = "run"
    /\ outcome \in {"timeout", "notfound"}
    /\ req' = [req EXCEPT ![r] =
                  Return([@ EXCEPT !.outcome = outcome,
                                   !.spawned = @ + 1], NoAudio)]
    /\ fs' = Left(fs, r)
    /\ UNCHANGED <<fn, phase, tts_service, constructed>>

\* the branch `result.returncode == 0 and os.path.exists(temp_path)`
ReadAndUnlink(r, read_ok) ==
    /\ req[r].pc = "finish"
    /\ LET p == req[r].temp_path IN
       /\ req[r].returncode = 0 /\ fs[p].exists
       /\ IF read_ok
          THEN /\ fs' = Left([fs EXCEPT ![p] = NoFile], r)
               /\ req' = [req EXCEPT ![r] =
                     Return([@ EXCEPT !.foreign = (fs[p].creator # r)],
                            FileBytes(fs[p].content))]
          ELSE /\ fs' = Left(fs, r)
               /\ req' = [req EXCEPT ![r] =
                     Return([@ EXCEPT !.outcome = "read_error",
                                      !.foreign = (fs[p].creator # r)],
                            NoAudio)]
    /\ UNCHANGED <<fn, phase, tts_service, constructed>>

\* the else branch: unlink the file if it exists, return None
FailAndUnlink(r) ==
    /\ req[r].pc = "finish"
    /\ LET p == req[r].temp_path IN
       /\ ~(req[r].returncode = 0 /\ fs[p].exists)
       /\ fs' = Left([fs EXCEPT ![p] = NoFile], r)
       /\ req' = [req EXCEPT ![r] =
             Return([@ EXCEPT !.foreign = (fs[p].exists /\ fs[p].creator # r)],
                    NoAudio)]
    /\ UNCHANGED <<fn, phase, tts_service, constructed>>

\* synthesize_speech's `except Exception`: the fallback tone
Fallback(r) ==
    /\ req[r].pc = "fallback"
    /\ req' = [req EXCEPT ![r] =
          Return([@ EXCEPT !.tones = @ + 1],
                 _generate_fallback_audio(@.text, @.language))]
    /\ UNCHANGED <<fn, phase, tts_service, constructed, fs>>

SynthesisSteps(r) ==
    \/ synthesize_speech(r)
    \/ \E name \in Names : MkTemp(r, name)
    \/ MkTempError(r)
    \/ \E outcome \in {"ok", "nonzero", "missing"} : RunExits(r, outcome)
    \/ \E outcome \in {"timeout", "notfound"} : RunRaises(r, outcome)
    \/ \E read_ok \in BOOLEAN : ReadAndUnlink(r, read_ok)
    \/ FailAndUnlink(r)
    \/ Fallback(r)

(***************************************************************************)
(* Spec: the threaded server.                                              *)
(***************************************************************************)
Init ==
    /\ fn = FnIdle
    /\ phase = "boot"
    /\ tts_service = 0
    /\ constructed = 0
    /\ fs = [name \in Names |-> NoFile]
    /\ req = [r \in Reqs |-> Idle]

\* the requests of one server thread
Serve(r, bodies) ==
    \/ \E data \in bodies : create_speech(r, data)
    \/ \E handler \in GetHandlers : GetRequest(r, handler)
    \/ initialize_tts(r)
    \/ SynthesisSteps(r)
    \/ NextRequest(r)

Next ==
    \/ Main
    \/ \E r \in Reqs : Serve(r, Bodies)

Spec == Init /\ [][Next]_vars

\* the request bodies that create_speech answers without reaching the
\* synthesizer: input missing, blank or no string, or a voice that is no string
InitBodies ==
    {data \in Bodies :
        \/ ~data.input_is_str
        \/ InputIsBlank(Get(data, "input", <<>>))
        \/ ~data.voice_is_str}

\* the server under the requests that stay clear of the temporary directory
NextInit ==
    \/ Main
    \/ \E r \in Reqs :
        \/ \E data \in InitBodies : create_speech(r, data)
        \/ \E handler \in GetHandlers : GetRequest(r, handler)
        \/ initialize_tts(r)
        \/ synthesize_speech(r)
        \/ Fallback(r)
        \/ NextRequest(r)

SpecInit == Init /\ [][NextInit]_vars

(***************************************************************************)
(* SpecCall: one caller with its own service instance calls                *)
(* synthesize_speech(text, language, voice), one call after another.       *)
(***************************************************************************)
Callers == {1}
CallTexts == {<<>>, TextBlank, TextHi, TextDr, TextHindi}
CallLanguages == {"en", "hi", "fr"}
CallVoices == {"alloy", "nova", "bogus"}

InitCall ==
    /\ fn = FnIdle
    /\ phase = "library"
    /\ tts_service = 0
    /\ constructed = 1
    /\ fs = [name \in Names |-> NoFile]
    /\ req = [r \in Reqs |-> Idle]

Call(r, text, language, voice, voice_hashable) ==
    /\ req[r].pc = "idle"
    /\ req' = [req EXCEPT ![r] =
                  [Idle EXCEPT !.pc = "synth", !.handler = "direct",
                               !.tts = 1, !.text = text,
                               !.language = language, !.voice = voice,
                               !.voice_hashable = voice_hashable]]
    /\ UNCHANGED <<fn, phase, tts_service, constructed, fs>>

NextCall ==
    \E r \in Callers :
        \/ \E text \in CallTexts, language \in CallLanguages, voice \in CallVoices :
               Call(r, text, language, voice, TRUE)
        \/ \E text \in CallTexts, language \in CallLanguages :
               Call(r, text, language, "", FALSE)
        \/ SynthesisSteps(r)
        \/ NextRequest(r)

SpecCall == InitCall /\ [][NextCall]_vars

(***************************************************************************)
(* SpecFn                                                                  *)
(***************************************************************************)
InitFn ==
    /\ fn = FnIdle
    /\ phase = "functions"
    /\ tts_service = 0
    /\ constructed = 0
    /\ fs = [name \in Names |-> NoFile]
    /\ req = [r \in Reqs |-> Idle]

NextFn ==
    \/ \E voice \in FnVoices, language \in FnLanguages : FnResolve(voice, language)
    \/ \E n \in 0..MaxTextLen, language \in FnLanguages :
           FnTone(TextOfLen(n), language)
    \/ \E i \in ProbeIndices(fn.text) : FnSample(i)

SpecFn == InitFn /\ [][NextFn]_vars

(***************************************************************************)
(* Properties.                                                             *)
(***************************************************************************)
WhitespaceOnly(text) == \A k \in 1..Len(text) : text[k] \in Whitespace

\* the outcomes of the external synthesizer invocation
SynthFailures == {"nonzero", "missing", "timeout", "notfound"}
SynthOutcomes == {"ok"} \cup SynthFailures

\* the requests between the creation of their temporary file and the return
\* of _synthesize_with_espeak
InFlight(r) == req[r].pc \in {"run", "finish"}

\* C1: a finished synthesize_speech call with non-blank text returns audio
\* bytes for every outcome of the synthesizer invocation (the synthesizer's
\* file bytes on success, the fallback tone on every failure), and returns
\* None only for blank text.
C1_AlwaysAudio ==
    \A r \in Reqs :
        LET q == req[r] IN
        (q.handler = "direct" /\ q.pc = "done") =>
            /\ (q.outcome = "ok" => q.result = EspeakWav)
            /\ (q.outcome \in SynthFailures => q.result.kind = "fallback")
            /\ (q.result = NoAudio /\ q.outcome \in SynthOutcomes \cup {"none"}) =>
                    WhitespaceOnly(q.text)

\* C2: a POST whose `input` is missing, empty or whitespace-only, the empty
\* object included, is answered 400 {"error": "Input text is required"} and
\* starts no synthesis.
C2_BlankInputIs400 ==
    \A r \in Reqs :
        LET q == req[r] IN
        (/\ q.handler = "create_speech"
         /\ q.data.input_is_str
         /\ WhitespaceOnly(Get(q.data, "input", <<>>))) =>
            /\ q.pc = "done"
            /\ q.status = 400
            /\ q.error = "Input text is required"
            /\ q.tts = 0 /\ q.created = 0 /\ q.spawned = 0 /\ q.tones = 0

\* C3: a POST with non-blank `input` is answered 200 with a non-empty body,
\* and Content-Type audio/wav when no response_format is given, whatever
\* the outcome of the synthesizer invocation.
C3_NonBlankIs200 ==
    \A r \in Reqs :
        LET q == req[r] IN
        (/\ q.handler = "create_speech"
         /\ q.pc = "done"
         /\ q.outcome \in SynthOutcomes) =>
            /\ q.status = 200
            /\ q.result.kind \in {"espeak", "fallback"}
            /\ ("response_format" \notin q.data.keys =>
                    q.content_type = "audio/wav")

\* C4: _get_voice_config never fails and returns table[L][V], L the
\* requested language if it is 'en' or 'hi' and 'en' otherwise, V the
\* requested voice id if table[L] has it and 'alloy' otherwise.
C4_ResolverTotal ==
    fn.op = "resolve" =>
        LET L == IF fn.language \in {"en", "hi"} THEN fn.language ELSE "en"
            V == IF fn.voice \in DOMAIN voice_configs[L] THEN fn.voice ELSE "alloy"
        IN /\ fn.config # KeyError
           /\ fn.config = voice_configs[L][V]
           /\ \E l \in DOMAIN voice_configs :
                  \E v \in DOMAIN voice_configs[l] : fn.config = voice_configs[l][v]

\* C4's case: an unsupported voice id in a supported language resolved to
\* that language's 'alloy' profile
C4_Witness ==
    /\ fn.op = "resolve"
    /\ fn.language = "hi"
    /\ fn.voice = "nova"
    /\ fn.config = voice_configs["hi"]["alloy"]

\* C5: when _synthesize_with_espeak has returned, the temporary file it
\* created no longer exists, on every exit path; with every call finished
\* no temporary file remains.
C5_TempFileRemoved ==
    /\ \A r \in Reqs :
          (req[r].pc = "done" /\ req[r].temp_path # 0) =>
              ~fs[req[r].temp_path].exists
    /\ (\A r \in Reqs : req[r].pc \in {"idle", "done"}) =>
          \A name \in Names : ~fs[name].exists

\* C6: for empty or whitespace-only text synthesize_speech returns None for
\* every language and voice, creating no temporary file, spawning no
\* synthesizer and generating no fallback tone.
C6_BlankReturnsNone ==
    \A r \in Reqs :
        LET q == req[r] IN
        (q.handler = "direct" /\ WhitespaceOnly(q.text)) =>
            /\ q.pc \in {"synth", "done"}
            /\ q.pc = "done" => q.result = NoAudio
            /\ q.temp_path = 0 /\ q.created = 0
            /\ q.spawned = 0 /\ q.tones = 0

\* C6's case: a whitespace-only text with an unsupported language and an
\* unknown voice has returned None
C6_Witness ==
    \E r \in Reqs :
        /\ req[r].handler = "direct"
        /\ req[r].pc = "done"
        /\ req[r].text = TextBlank
        /\ req[r].language = "fr"
        /\ req[r].voice = "bogus"
        /\ req[r].result = NoAudio

\* C7: the fallback tone for a text of length n has int(22050 * min(0.08 n,
\* 10.0)) samples at 22050 Hz, a count that grows with n up to the cap of
\* 220500; every sample lies within [-1, 1] before encoding and within the
\* signed 16-bit range after it; 'en' and 'hi' get different frequencies.
C7_ToneShape ==
    /\ fn.op \in {"tone", "sample"} =>
        LET n == Len(fn.text)
            d == IF 8 * n < 1000 THEN 8 * n ELSE 1000
        IN /\ fn.audio.nframes = (22050 * d) \div 100
           /\ fn.audio.nframes <= 220500
           /\ fn.audio.framerate = 22050
           /\ (n >= 1 /\ 8 * n <= 1000) =>
                  fn.audio.nframes > NumSamples(TextOfLen(n - 1))
           /\ n >= 1 => fn.audio.nframes >= NumSamples(TextOfLen(n - 1))
           /\ fn.audio.frequency = Frequency(fn.language)
    /\ fn.op = "sample" =>
        /\ fn.sample >= 0 - 1000 /\ fn.sample <= 1000
        /\ fn.pcm >= 0 - 32768 /\ fn.pcm <= 32767
    /\ Frequency("en") # Frequency("hi")

\* C7's case: a text past the cap, its tone 220500 samples long, and a
\* sample of it that is not silent
C7_Witness ==
    /\ fn.op = "sample"
    /\ Len(fn.text) > 125
    /\ fn.audio.nframes = 220500
    /\ fn.sample # 0

\* C8: a finished synthesize_speech call with non-blank text that reached
\* the synthesizer spawned it exactly once, and after a failed, timed-out
\* or missing-executable invocation went on to the fallback tone.
C8_OneSpawnThenFallback ==
    \A r \in Reqs :
        LET q == req[r] IN
        /\ q.spawned <= 1
        /\ (q.handler = "direct" /\ q.pc = "done"
                /\ q.outcome \in SynthOutcomes) =>
              /\ q.spawned = 1
              /\ q.outcome \in SynthFailures =>
                    (q.tones = 1 /\ q.result.kind = "fallback")

C10_Singleton ==
    /\ constructed <= 1
    /\ tts_service \in {0, 1}
    /\ constructed = 1 => tts_service = 1
    /\ \A r \in Reqs :
          LET q == req[r] IN
          /\ q.tts \in {0, 1}
          /\ (q.pc \in {"synth", "fallback", "mktemp", "run", "finish"}
                \/ (q.pc = "done" /\ q.handler \in GetHandlers)) => q.tts = 1

\* C10's case: two threads, one in create_speech and one in a GET handler,
\* hold the instance initialize_tts returned to them
C10_Witness ==
    \E r1, r2 \in Reqs :
        /\ r1 # r2
        /\ req[r1].handler = "create_speech" /\ req[r1].pc = "synth"
        /\ req[r2].handler \in GetHandlers /\ req[r2].pc = "done"
        /\ req[r1].tts = 1 /\ req[r2].tts = 1
        /\ constructed = 1

====
